---- MODULE Spec2Model ----
(***************************************************************************)
(* Model of the embedding-backed retrieval store of backend/vanna_config.py *)
(* (class FAISS_VectorStore): the in-memory FAISS index and metadata list,  *)
(* the three files it persists to (faiss.index, metadata.pkl,               *)
(* dimension.txt), process crashes and restarts, concurrent requests, and   *)
(* the module global _vanna_instance behind init_vanna and get_vanna.       *)
(***************************************************************************)
EXTENDS Integers, Sequences, FiniteSets, TLC

\* ------------------------------------------------------------------ bounds
\* The largest number of records the model lets the store hold.
MaxRecords == 2
\* The largest number of failed writes and crashes in one behaviour.
MaxFaults == 2
\* The largest number of records in a snapshot a store is constructed over.
MaxStored == 11

\* ------------------------------------------------------------------ inputs
\* The texts callers train with.
DdlTexts == {"CREATE TABLE t(id INT)"}
DocTexts == {"t stores widgets"}
Questions == {"how many rows"}
Sqls == {"SELECT COUNT(*) FROM t"}
\* Embeddings the provider may return: float64 vectors of length 1 or 2,
\* written in units of half a float32 ulp (odd values are not float32 values).
Embeddings == {<<1>>, <<2>>, <<2, 1>>}
\* Outcome of one client.embeddings.create call: a vector, or an exception.
ProviderFailure == [ok |-> FALSE, v |-> <<>>]
EmbedOutcomes == {[ok |-> TRUE, v |-> e] : e \in Embeddings} \cup {ProviderFailure}

\* Where a write of add_embeddings can fail (at: dimension.txt, faiss.index,
\* metadata.pkl), whether by an exception or by the death of the process
\* (how), and what the file being written is left as (left): untouched (the
\* write never started), truncated, or complete (the process dies after the
\* last write, before the call returns).
NoFault == [at |-> "none", how |-> "none", left |-> "ok"]
Faults ==
  {NoFault}
    \cup [at : {"dim", "idx", "meta"}, how : {"raise", "crash"}, left : {"untouched", "partial"}]
    \cup {[at |-> "meta", how |-> "crash", left |-> "ok"]}

\* ------------------------------------------------------------------ values
NoDim == 0
NoneIndex == [none |-> TRUE, d |-> NoDim, vecs |-> <<>>]
AbsentIndexFile == [st |-> "absent", d |-> NoDim, vecs |-> <<>>]
AbsentMetadataFile == [st |-> "absent", recs |-> <<>>]
AbsentDimensionFile == [st |-> "absent", val |-> NoDim]
\* No id: the id field of a call that returned none.
NoId == 0
NoRet == [op |-> "none", status |-> "none", id |-> NoId, out |-> <<>>]
\* _vanna_instance = None
NoInstance == 0

VARIABLES
  proc,            \* "up": a store object exists; "down": no process
  index,           \* self.index
  metadata,        \* self.metadata
  dimension,       \* self.dimension
  index_file,      \* <path>/faiss.index
  metadata_file,   \* <path>/metadata.pkl
  dimension_file,  \* <path>/dimension.txt
  ret,             \* the last call and what it returned or raised
  faults,          \* history: number of failed writes and crashes so far
  dirty,           \* history: a write of this process has failed
  lockedD,         \* history: length of the first embedding added with success
  issued,          \* history: how many ids uuid4 has handed to records so far
  added,           \* history: the records this process loaded, then those its
                   \* successful add_* calls added, in order
  pc,              \* per request thread: position in add_ddl (concurrent runs)
  frame,           \* per request thread: locals of add_ddl (concurrent runs)
  _vanna_instance, \* the module global: NoInstance, or the instance it refers to
  instances,       \* history: how many VannaConfig objects this process has built
  connected        \* history: the instances whose connect_to_sqlite has returned

store_vars == <<index, metadata, dimension>>
file_vars == <<index_file, metadata_file, dimension_file>>
hist_vars == <<faults, dirty, lockedD>>
thread_vars == <<pc, frame>>
global_vars == <<_vanna_instance, instances, connected>>
vars == <<proc, index, metadata, dimension, index_file, metadata_file,
          dimension_file, ret, faults, dirty, lockedD, issued, added, pc, frame,
          _vanna_instance, instances, connected>>

\* str(uuid.uuid4()): an id no call has been given before.  Ids are opaque, so
\* the model numbers them in order of issue.
uuid4 == issued + 1
\* The ids a caller can pass: those issued so far, and one that never was.
Ids == 1..uuid4

\* The store as one value, for the operators that compute a call's effect.
Store ==
  [index |-> index, metadata |-> metadata, dimension |-> dimension,
   index_file |-> index_file, metadata_file |-> metadata_file,
   dimension_file |-> dimension_file]

\* ------------------------------------------------------------------ numpy / faiss
\* float64 -> float32: a value that float32 cannot hold goes to a neighbour.
F32(x) == x - (x % 2)

\* np.array([embeddings], dtype=np.float32)
float32(e) == [i \in 1..Len(e) |-> F32(e[i])]

\* faiss.IndexFlatL2(dimension)
IndexFlatL2(d) == [none |-> FALSE, d |-> d, vecs |-> <<>>]

\* self.index.add(embedding_array): the row goes to the end.
IndexAddFront(ix, arr) == [ix EXCEPT !.vecs = <<arr>> \o @]
IndexAdd(ix, arr) == [ix EXCEPT !.vecs = Append(@, arr)]

\* self.metadata.append(metadata)
MetadataAppendNothing(md, rec) == md
MetadataAppend(md, rec) == Append(md, rec)

\* What a write leaves of a file: `new` when it completes, the old file when
\* it could not be opened, a truncated file when it stopped half way.
WriteFile(old, new, left) ==
  CASE left = "ok" -> new
    [] left = "untouched" -> old
    [] left = "partial" -> [new EXCEPT !.st = "partial"]

\* The bytes faiss.write_index writes for an index.
IndexImage(ix) == [st |-> "ok", d |-> ix.d, vecs |-> ix.vecs]
\* The bytes pickle.dump writes for the metadata list.
MetadataImage(md) == [st |-> "ok", recs |-> md]
\* The text _init_index writes to dimension.txt.
DimensionImage(d) == [st |-> "ok", val |-> d]

\* How a call that stops at a fault ends.
Stop(s, how) == [s |-> s, status |-> IF how = "crash" THEN "crash" ELSE "OSError"]

\* ------------------------------------------------------------------ FAISS_VectorStore
\* _init_index(dimension): sets the dimension, creates the empty index and
\* writes dimension.txt (`left`: what that write leaves of the file).
_init_index(s, d, left) ==
  [s EXCEPT !.dimension = d,
            !.index = IndexFlatL2(d),
            !.dimension_file = WriteFile(@, DimensionImage(d), left)]

\* _save(): faiss.write_index, then pickle.dump of the metadata list.
_save_metadata_only(s, f) ==
  LET s4 == [s EXCEPT !.metadata_file =
                 WriteFile(@, MetadataImage(s.metadata),
                           IF f.at = "meta" THEN f.left ELSE "ok")]
  IN IF f.at \in {"idx", "meta"} THEN Stop(s4, f.how) ELSE [s |-> s4, status |-> "ok"]
_save(s, f) ==
  LET s3 == [s EXCEPT !.index_file =
                 WriteFile(@, IndexImage(s.index),
                           IF f.at = "idx" THEN f.left ELSE "ok")]
      s4 == [s3 EXCEPT !.metadata_file =
                 WriteFile(@, MetadataImage(s.metadata),
                           IF f.at = "meta" THEN f.left ELSE "ok")]
  IN IF f.at = "idx" THEN Stop(s3, f.how)
     ELSE IF f.at = "meta" THEN Stop(s4, f.how)
     ELSE [s |-> s4, status |-> "ok"]

\* The dimension test of add_embeddings (line 88).
DimensionMismatch(e, dim) == Len(e) # dim

\* add_embeddings(embeddings, metadata) under fault f.
add_embeddings(s, e, md, f) ==
  LET s1 == IF s.index.none
              THEN _init_index(s, Len(e), IF f.at = "dim" THEN f.left ELSE "ok")
              ELSE s
      s2 == [s1 EXCEPT !.index = IndexAdd(@, float32(e)),
                       !.metadata = MetadataAppend(@, md)]
  IN IF s.index.none /\ f.at = "dim" THEN Stop(s1, f.how)
     ELSE IF DimensionMismatch(e, s1.dimension) THEN [s |-> s1, status |-> "ValueError"]
     ELSE IF Len(e) # s1.index.d THEN [s |-> s1, status |-> "AssertionError"]
     ELSE _save(s2, f)

\* The faults that can happen in a call, given where the call gets to.
FaultApplies(s, eo, f) ==
  \/ f = NoFault
  \/ /\ eo.ok
     /\ IF f.at = "dim" THEN s.index.none
        ELSE /\ Len(eo.v) = (IF s.index.none THEN Len(eo.v) ELSE s.dimension)
             /\ Len(eo.v) = (IF s.index.none THEN Len(eo.v) ELSE s.index.d)

\* The dict each add_* call builds; emb is a history field: the embedding
\* generate_embedding returned for this record.
DdlRecord_id_made_once(id, ddl, e) ==
  [id |-> 1, type |-> "ddl", content |-> ddl, emb |-> e]
DdlRecord(id, ddl, e) == [id |-> id, type |-> "ddl", content |-> ddl, emb |-> e]
DocumentationRecord(id, doc, e) ==
  [id |-> id, type |-> "documentation", content |-> doc, emb |-> e]
QuestionSqlRecord(id, question, sql, e) ==
  [id |-> id, type |-> "question_sql", question |-> question, sql |-> sql, emb |-> e]

\* add_ddl(ddl): uuid4 gave id, generate_embedding ended as eo.
add_ddl_zero_on_error(s, ddl, id, eo, f) ==
  add_embeddings(s, IF eo.ok THEN eo.v ELSE <<0>>,
                 DdlRecord(id, ddl, IF eo.ok THEN eo.v ELSE <<0>>), f)
add_ddl(s, ddl, id, eo, f) ==
  IF ~eo.ok THEN [s |-> s, status |-> "ProviderError"]
  ELSE add_embeddings(s, eo.v, DdlRecord(id, ddl, eo.v), f)

\* add_documentation(documentation)
add_documentation(s, doc, id, eo, f) ==
  IF ~eo.ok THEN [s |-> s, status |-> "ProviderError"]
  ELSE add_embeddings(s, eo.v, DocumentationRecord(id, doc, eo.v), f)

\* add_question_sql(question, sql): the question is what is embedded.
add_question_sql(s, question, sql, id, eo, f) ==
  IF ~eo.ok THEN [s |-> s, status |-> "ProviderError"]
  ELSE add_embeddings(s, eo.v, QuestionSqlRecord(id, question, sql, eo.v), f)

\* __init__: loads the snapshot when faiss.index and metadata.pkl both exist,
\* and starts empty otherwise.  A truncated file makes its reader raise.
StoreInit(s) ==
  IF s.index_file.st # "absent" /\ s.metadata_file.st # "absent"
    THEN IF \/ s.index_file.st = "partial"
            \/ s.metadata_file.st = "partial"
            \/ s.dimension_file.st = "partial"
           THEN [s |-> s, status |-> "LoadError"]
           ELSE [s |-> [s EXCEPT !.index = [none |-> FALSE, d |-> s.index_file.d,
                                            vecs |-> s.index_file.vecs],
                                 !.metadata = s.metadata_file.recs,
                                 !.dimension = IF s.dimension_file.st = "ok"
                                                 THEN s.dimension_file.val
                                                 ELSE s.index_file.d],
                 status |-> "loaded"]
    ELSE [s |-> [s EXCEPT !.index = NoneIndex, !.metadata = <<>>, !.dimension = NoDim],
          status |-> "fresh"]
\* ------------------------------------------------------------------ search
\* The n of get_similar_embeddings(embedding, n=10) in the three get_* calls.
TopN == 10

Min(a, b) == IF a < b THEN a ELSE b

\* Squared Euclidean distance, as IndexFlatL2 computes it.
RECURSIVE SumSq(_, _, _)
SumSq(q, v, i) ==
  IF i > Len(q) THEN 0 ELSE (q[i] - v[i]) * (q[i] - v[i]) + SumSq(q, v, i + 1)
L2(q, v) == SumSq(q, v, 1)

\* self.index.search(embedding_array, k): the rankings faiss may return, k
\* distinct positions by ascending distance; the order among equal distances
\* is the library's.
RECURSIVE Nearest(_, _, _)
Nearest(dist, rest, k) ==
  IF k = 0 THEN {<<>>}
  ELSE LET best == {p \in rest : \A x \in rest : dist[p] <= dist[x]}
       IN UNION {{<<p>> \o r : r \in Nearest(dist, rest \ {p}, k - 1)} : p \in best}

search(ix, q, k) ==
  LET m == Len(ix.vecs)
      dist == [i \in 1..m |-> L2(q, ix.vecs[i])]
  IN Nearest(dist, 1..m, k)

\* The rankings a call of get_similar_embeddings may see (none: no search).
Rankings_default_n(s, eo) ==
  IF ~eo.ok \/ s.index.none \/ Len(s.index.vecs) = 0 \/ Len(eo.v) # s.index.d
    THEN {<<>>}
    ELSE search(s.index, float32(eo.v), Min(5, Len(s.index.vecs)))
Rankings(s, eo) ==
  IF ~eo.ok \/ s.index.none \/ Len(s.index.vecs) = 0 \/ Len(eo.v) # s.index.d
    THEN {<<>>}
    ELSE search(s.index, float32(eo.v), Min(TopN, Len(s.index.vecs)))

\* Lines 108-111: the records at the positions the search returned; a position
\* the ledger does not have is passed over.
lookup(md, rank) ==
  LET hits == SelectSeq(rank, LAMBDA idx : idx <= Len(md))
  IN [i \in 1..Len(hits) |-> md[hits[i]]]

\* get_similar_embeddings(embedding, n) when the search returned `rank`.
get_similar_embeddings_no_empty_test(s, e, n, rank) ==
  IF s.index.none THEN [out |-> <<>>, status |-> "AttributeError"]
  ELSE IF Len(e) # s.index.d THEN [out |-> <<>>, status |-> "AssertionError"]
  ELSE LET hits == SelectSeq(rank, LAMBDA idx : idx <= Len(s.metadata))
       IN [out |-> [i \in 1..Len(hits) |-> s.metadata[hits[i]]], status |-> "ok"]
get_similar_embeddings(s, e, n, rank) ==
  IF s.index.none \/ Len(s.index.vecs) = 0 THEN [out |-> <<>>, status |-> "ok"]
  ELSE IF Len(e) # s.index.d THEN [out |-> <<>>, status |-> "AssertionError"]
  ELSE [out |-> lookup(s.metadata, rank), status |-> "ok"]

OfType(results, type) == SelectSeq(results, LAMBDA r : r.type = type)

\* get_related_ddl(question)
get_related_ddl(s, eo, rank) ==
  IF ~eo.ok THEN [out |-> <<>>, status |-> "ProviderError"]
  ELSE LET r == get_similar_embeddings(s, eo.v, TopN, rank)
           sel == OfType(r.out, "ddl")
       IN [out |-> [i \in 1..Len(sel) |-> sel[i].content], status |-> r.status]

\* get_related_documentation(question)
get_related_documentation(s, eo, rank) ==
  IF ~eo.ok THEN [out |-> <<>>, status |-> "ProviderError"]
  ELSE LET r == get_similar_embeddings(s, eo.v, TopN, rank)
           sel == OfType(r.out, "documentation")
       IN [out |-> [i \in 1..Len(sel) |-> sel[i].content], status |-> r.status]

\* get_similar_question_sql(question)
get_similar_question_sql(s, eo, rank) ==
  IF ~eo.ok THEN [out |-> <<>>, status |-> "ProviderError"]
  ELSE LET r == get_similar_embeddings(s, eo.v, TopN, rank)
           sel == OfType(r.out, "question_sql")
       IN [out |-> [i \in 1..Len(sel) |->
                      [question |-> sel[i].question, sql |-> sel[i].sql]],
           status |-> r.status]

\* get_training_data()
get_training_data(s) == s.metadata

\* remove_training_data(id): logs a warning and returns.
remove_training_data(s, id) == [s |-> s, status |-> "ok"]

\* ------------------------------------------------------------------ one caller
Threads == {"t1", "t2"}
NoFrame == [e |-> <<>>, md |-> <<>>, rank |-> <<>>]

WithinBounds(s) ==
  /\ Len(s.index.vecs) <= MaxRecords
  /\ Len(s.metadata) <= MaxRecords
  /\ Len(s.index_file.vecs) <= MaxRecords
  /\ Len(s.metadata_file.recs) <= MaxRecords

Init ==
  /\ proc = "up"
  /\ index = NoneIndex
  /\ metadata = <<>>
  /\ dimension = NoDim
  /\ index_file = AbsentIndexFile
  /\ metadata_file = AbsentMetadataFile
  /\ dimension_file = AbsentDimensionFile
  /\ ret = [NoRet EXCEPT !.op = "construct", !.status = "fresh"]
  /\ faults = 0
  /\ dirty = FALSE
  /\ lockedD = NoDim
  /\ issued = 0
  /\ added = <<>>
  /\ pc = [t \in Threads |-> "idle"]
  /\ frame = [t \in Threads |-> NoFrame]
  /\ _vanna_instance = NoInstance
  /\ instances = 0
  /\ connected = {}

\* The files a call leaves.
SetFiles(s) ==
  /\ index_file' = s.index_file
  /\ metadata_file' = s.metadata_file
  /\ dimension_file' = s.dimension_file

\* The process is gone: its memory with it, the module global too.
ProcessDown ==
  /\ proc' = "down"
  /\ index' = NoneIndex
  /\ metadata' = <<>>
  /\ dimension' = NoDim
  /\ dirty' = FALSE
  /\ added' = <<>>
  /\ _vanna_instance' = NoInstance
  /\ instances' = 0
  /\ connected' = {}

\* The effect of an add_* call that ended as r (r.status = "crash": the
\* process died inside the call).  The id of a call that failed before it
\* touched the store was seen by nobody: the model does not count it.
\* rec is the dict the call built.
Commit(r, op, rec, eo) ==
  /\ SetFiles(r.s)
  /\ IF r.status = "crash"
       THEN ProcessDown
       ELSE /\ proc' = proc
            /\ index' = r.s.index
            /\ metadata' = r.s.metadata
            /\ dimension' = r.s.dimension
            /\ dirty' = (dirty \/ r.status = "OSError")
            /\ added' = IF r.status = "ok" THEN Append(added, rec) ELSE added
            /\ UNCHANGED global_vars
  /\ ret' = [NoRet EXCEPT !.op = op, !.status = r.status,
                          !.id = IF r.status = "ok" THEN rec.id ELSE NoId]
  /\ issued' = IF r.status \in {"ok", "OSError", "crash"} THEN issued + 1 ELSE issued
  /\ faults' = IF r.status \in {"crash", "OSError"} THEN faults + 1 ELSE faults
  /\ lockedD' = IF r.status = "ok" /\ lockedD = NoDim THEN Len(eo.v) ELSE lockedD
  /\ UNCHANGED thread_vars

AddDdlCall(ddl, id, eo, f) ==
  /\ proc = "up"
  /\ FaultApplies(Store, eo, f)
  /\ f # NoFault => faults < MaxFaults
  /\ LET r == add_ddl(Store, ddl, id, eo, f)
     IN WithinBounds(r.s) /\ Commit(r, "add_ddl", DdlRecord(id, ddl, eo.v), eo)

AddDocumentationCall(doc, id, eo, f) ==
  /\ proc = "up"
  /\ FaultApplies(Store, eo, f)
  /\ f # NoFault => faults < MaxFaults
  /\ LET r == add_documentation(Store, doc, id, eo, f)
     IN /\ WithinBounds(r.s)
        /\ Commit(r, "add_documentation", DocumentationRecord(id, doc, eo.v), eo)

AddQuestionSqlCall(question, sql, id, eo, f) ==
  /\ proc = "up"
  /\ FaultApplies(Store, eo, f)
  /\ f # NoFault => faults < MaxFaults
  /\ LET r == add_question_sql(Store, question, sql, id, eo, f)
     IN /\ WithinBounds(r.s)
        /\ Commit(r, "add_question_sql", QuestionSqlRecord(id, question, sql, eo.v), eo)

AddDdl == \E ddl \in DdlTexts, eo \in EmbedOutcomes, f \in Faults :
            AddDdlCall(ddl, uuid4, eo, f)

AddDocumentation == \E doc \in DocTexts, eo \in EmbedOutcomes, f \in Faults :
                      AddDocumentationCall(doc, uuid4, eo, f)

AddQuestionSql ==
  \E question \in Questions, sql \in Sqls, eo \in EmbedOutcomes, f \in Faults :
    AddQuestionSqlCall(question, sql, uuid4, eo, f)

\* A read call that ended as r.
Answer(op, r) ==
  /\ proc = "up"
  /\ ret' = [NoRet EXCEPT !.op = op, !.status = r.status, !.out = r.out]
  /\ UNCHANGED <<proc, store_vars, file_vars, hist_vars, issued, added, thread_vars,
                 global_vars>>

\* A get_* call whose embedding call ended as eo and whose search, if it got
\* to one, returned the positions `rank`.
GetRelatedDdlCall(eo, rank) ==
  Answer("get_related_ddl", get_related_ddl(Store, eo, rank))

GetRelatedDocumentationCall(eo, rank) ==
  Answer("get_related_documentation", get_related_documentation(Store, eo, rank))

GetSimilarQuestionSqlCall(eo, rank) ==
  Answer("get_similar_question_sql", get_similar_question_sql(Store, eo, rank))

GetRelatedDdl ==
  \E eo \in EmbedOutcomes : \E rank \in Rankings(Store, eo) : GetRelatedDdlCall(eo, rank)

GetRelatedDocumentation ==
  \E eo \in EmbedOutcomes : \E rank \in Rankings(Store, eo) :
    GetRelatedDocumentationCall(eo, rank)

GetSimilarQuestionSql ==
  \E eo \in EmbedOutcomes : \E rank \in Rankings(Store, eo) :
    GetSimilarQuestionSqlCall(eo, rank)

GetTrainingData ==
  Answer("get_training_data", [out |-> get_training_data(Store), status |-> "ok"])

\* The n a caller of get_similar_embeddings asks for: one, and the default.
NeighbourCounts == {1, 5}

\* What self.index.search may return to get_similar_embeddings(e, n) (none
\* when the call does not get to the search).
Neighbours(s, e, n) ==
  IF s.index.none \/ Len(s.index.vecs) = 0 \/ Len(e) # s.index.d
    THEN {<<>>}
    ELSE search(s.index, float32(e), Min(n, Len(s.index.vecs)))

\* get_similar_embeddings(embedding, n), called on the store directly, whose
\* search, if it got to one, returned the positions `rank`.
GetSimilarEmbeddingsCall(e, n, rank) ==
  Answer("get_similar_embeddings", get_similar_embeddings(Store, e, n, rank))

GetSimilarEmbeddings ==
  \E e \in Embeddings, n \in NeighbourCounts : \E rank \in Neighbours(Store, e, n) :
    GetSimilarEmbeddingsCall(e, n, rank)

RemoveTrainingDataCall(id) ==
  /\ proc = "up"
  /\ LET r == remove_training_data(Store, id)
     IN /\ SetFiles(r.s)
        /\ index' = r.s.index
        /\ metadata' = r.s.metadata
        /\ dimension' = r.s.dimension
        /\ ret' = [NoRet EXCEPT !.op = "remove_training_data", !.status = r.status,
                                !.id = id]
  /\ UNCHANGED <<proc, hist_vars, issued, added, thread_vars, global_vars>>

RemoveTrainingData == \E id \in Ids : RemoveTrainingDataCall(id)

\* A new process constructs the store from the files (after a crash, or after
\* the process before it has exited between two calls).
Construct ==
  LET r == StoreInit(Store)
  IN /\ IF r.status = "LoadError"
          THEN ProcessDown
          ELSE /\ proc' = "up"
               /\ index' = r.s.index
               /\ metadata' = r.s.metadata
               /\ dimension' = r.s.dimension
               /\ dirty' = FALSE
               /\ added' = r.s.metadata
               /\ UNCHANGED global_vars
     /\ ret' = [NoRet EXCEPT !.op = "construct", !.status = r.status]
     /\ UNCHANGED <<file_vars, faults, lockedD, issued, thread_vars>>

\* One caller, one process: the public operations of the store.
Next ==
  \/ AddDdl
  \/ AddDocumentation
  \/ AddQuestionSql
  \/ GetRelatedDdl
  \/ GetRelatedDocumentation
  \/ GetSimilarQuestionSql
  \/ GetTrainingData
  \/ RemoveTrainingData

Spec == Init /\ [][Next]_vars

\* Durability: adds, crashes and the processes constructed after them.
NextRestart ==
  \/ AddDdl
  \/ AddDocumentation
  \/ AddQuestionSql
  \/ Construct

SpecRestart == Init /\ [][NextRestart]_vars

\* Retrieval after recovery: adds, failed writes, crashes, the processes
\* constructed after them, and the vector search on what they loaded.
NextRecover ==
  \/ AddDdl
  \/ AddDocumentation
  \/ AddQuestionSql
  \/ Construct
  \/ GetSimilarEmbeddings

SpecRecover == Init /\ [][NextRecover]_vars

\* ------------------------------------------------------------------ module global
\* Where a call of init_vanna that builds the instance can raise: in the steps
\* before the constructor (os.makedirs, sqlite3.connect, lines 257-273), or in
\* connect_to_sqlite (line 289).  The constructor itself raises when
\* FAISS_VectorStore.__init__ cannot read a file.
InitFailures == {"none", "setup", "connect"}

\* A call that returns the instance, or raises, and changes nothing.
GlobalAnswer(op, status, inst) ==
  /\ ret' = [NoRet EXCEPT !.op = op, !.status = status,
                          !.out = IF status = "ok" THEN <<inst>> ELSE <<>>]
  /\ UNCHANGED <<proc, store_vars, file_vars, hist_vars, issued, added, thread_vars,
                 global_vars>>

\* init_vanna(), entered through op (init_vanna itself, or get_vanna).
InitVannaCall(op, fail) ==
  IF _vanna_instance # NoInstance
    THEN GlobalAnswer(op, "ok", _vanna_instance)
    ELSE IF fail = "setup"
      THEN GlobalAnswer(op, "OSError", NoInstance)
      ELSE LET r == StoreInit(Store)
               inst == instances + 1
           IN IF r.status = "LoadError"
                THEN GlobalAnswer(op, "LoadError", NoInstance)
                ELSE /\ proc' = "up"
                     /\ index' = r.s.index
                     /\ metadata' = r.s.metadata
                     /\ dimension' = r.s.dimension
                     /\ dirty' = FALSE
                     /\ added' = r.s.metadata
                     /\ instances' = inst
                     /\ _vanna_instance' = inst
                     /\ connected' = IF fail = "connect" THEN connected
                                     ELSE connected \cup {inst}
                     /\ ret' = IF fail = "connect"
                                THEN [NoRet EXCEPT !.op = op, !.status = "OperationalError"]
                                ELSE [NoRet EXCEPT !.op = op, !.status = "ok",
                                                   !.out = <<inst>>]
                     /\ UNCHANGED <<file_vars, faults, lockedD, issued, thread_vars>>

InitVanna == \E fail \in InitFailures : InitVannaCall("init_vanna", fail)

\* get_vanna()
GetVanna ==
  IF _vanna_instance = NoInstance
    THEN \E fail \in InitFailures : InitVannaCall("get_vanna", fail)
    ELSE GlobalAnswer("get_vanna", "ok", _vanna_instance)

\* A process that has imported vanna_config and called nothing yet, over an
\* empty directory.
InitGlobal ==
  /\ proc = "down"
  /\ index = NoneIndex
  /\ metadata = <<>>
  /\ dimension = NoDim
  /\ index_file = AbsentIndexFile
  /\ metadata_file = AbsentMetadataFile
  /\ dimension_file = AbsentDimensionFile
  /\ ret = NoRet
  /\ faults = 0
  /\ dirty = FALSE
  /\ lockedD = NoDim
  /\ issued = 0
  /\ added = <<>>
  /\ pc = [t \in Threads |-> "idle"]
  /\ frame = [t \in Threads |-> NoFrame]
  /\ _vanna_instance = NoInstance
  /\ instances = 0
  /\ connected = {}

\* The calls of init_vanna and get_vanna of one process after another, and
\* the adds made on the instance they hand out.
NextGlobal ==
  \/ InitVanna
  \/ GetVanna
  \/ AddDdl
  \/ AddDocumentation
  \/ AddQuestionSql

SpecGlobal == InitGlobal /\ [][NextGlobal]_vars

\* ------------------------------------------------------------------ any text
\* The add_* methods take whatever str the caller passes, the empty one too
\* (the caller here is any user of the class, not only the routes of app.py).
EmptyText == ""

AddDdlAnyText ==
  \E ddl \in DdlTexts \cup {EmptyText}, eo \in EmbedOutcomes :
    AddDdlCall(ddl, uuid4, eo, NoFault)

AddDocumentationAnyText ==
  \E doc \in DocTexts \cup {EmptyText}, eo \in EmbedOutcomes :
    AddDocumentationCall(doc, uuid4, eo, NoFault)

AddQuestionSqlAnyText ==
  \E question \in Questions \cup {EmptyText}, sql \in Sqls \cup {EmptyText},
     eo \in EmbedOutcomes :
    AddQuestionSqlCall(question, sql, uuid4, eo, NoFault)

NextInput ==
  \/ AddDdlAnyText
  \/ AddDocumentationAnyText
  \/ AddQuestionSqlAnyText

SpecInput == Init /\ [][NextInput]_vars

\* ------------------------------------------------------------------ retrieval
\* A store constructed over a snapshot that earlier processes saved: n records
\* with ids 1..n, a DDL record at position j, a question/SQL record at
\* position k (0: none) and documentation records elsewhere, whose embeddings
\* rise with the position, fall with it, or rise with the first two equal and
\* the last two equal.
Orders == {"asc", "desc", "ties"}

StoredEmbedding(i, n, order) ==
  CASE order = "asc" -> <<2 * i>>
    [] order = "desc" -> <<2 * (n + 1 - i)>>
    [] order = "ties" -> <<2 * (IF i = 1 THEN 2 ELSE IF i = n THEN n - 1 ELSE i)>>

StoredRecord(i, n, j, k, order) ==
  LET e == StoredEmbedding(i, n, order)
  IN IF i = j THEN DdlRecord(i, "CREATE TABLE t" \o ToString(i) \o "(id INT)", e)
     ELSE IF i = k
       THEN QuestionSqlRecord(i, "how many rows in t" \o ToString(i),
                              "SELECT COUNT(*) FROM t" \o ToString(i), e)
       ELSE DocumentationRecord(i, "t" \o ToString(i) \o " stores widgets", e)

Snapshot(n, j, k, order) ==
  LET recs == [i \in 1..n |-> StoredRecord(i, n, j, k, order)]
      ix == [IndexFlatL2(1) EXCEPT !.vecs = [i \in 1..n |-> float32(recs[i].emb)]]
  IN [index |-> NoneIndex, metadata |-> <<>>, dimension |-> NoDim,
      index_file |-> IF n = 0 THEN AbsentIndexFile ELSE IndexImage(ix),
      metadata_file |-> IF n = 0 THEN AbsentMetadataFile ELSE MetadataImage(recs),
      dimension_file |-> IF n = 0 THEN AbsentDimensionFile ELSE DimensionImage(1)]

InitSearch ==
  \E n \in 0..MaxStored, order \in Orders :
    \E j \in 0..n, k \in {0, n} :
      LET r == StoreInit(Snapshot(n, j, k, order))
      IN /\ proc = "up"
         /\ index = r.s.index
         /\ metadata = r.s.metadata
         /\ dimension = r.s.dimension
         /\ index_file = r.s.index_file
         /\ metadata_file = r.s.metadata_file
         /\ dimension_file = r.s.dimension_file
         /\ ret = [NoRet EXCEPT !.op = "construct", !.status = r.status]
         /\ faults = 0
         /\ dirty = FALSE
         /\ lockedD = r.s.dimension
         /\ issued = n
         /\ added = r.s.metadata
         /\ pc = [t \in Threads |-> "idle"]
         /\ frame = [t \in Threads |-> NoFrame]
         /\ _vanna_instance = NoInstance
         /\ instances = 0
         /\ connected = {}

NextSearch ==
  \/ GetRelatedDdl
  \/ GetRelatedDocumentation
  \/ GetSimilarQuestionSql

SpecSearch == InitSearch /\ [][NextSearch]_vars

\* ------------------------------------------------------------------ concurrent requests
\* Two request threads of the Flask server each run add_ddl on the one store
\* (app.py, train_ddl).  Nothing in add_ddl, add_embeddings or _save takes a
\* lock, so the threads interleave between any two statements; each action
\* below is one statement of add_embeddings or _save.  (A failed embedding
\* call returns before any shared state is read: it is a stuttering step.)
\* The thread returns from add_ddl (status "ok") or raises out of it.
Return(t, status) ==
  /\ pc' = [pc EXCEPT ![t] = "idle"]
  /\ frame' = [frame EXCEPT ![t] = NoFrame]
  /\ ret' = [NoRet EXCEPT !.op = "add_ddl", !.status = status,
                          !.id = IF status = "ok" THEN frame[t].md.id ELSE NoId]
  /\ added' = IF status = "ok" THEN Append(added, frame[t].md) ELSE added
  /\ UNCHANGED <<issued, global_vars>>

Goto(t, label) ==
  /\ pc' = [pc EXCEPT ![t] = label]
  /\ UNCHANGED <<frame, ret, issued, added, global_vars>>

\* add_ddl lines 127-129: uuid4, generate_embedding, the call of add_embeddings.
Request(t) ==
  /\ proc = "up" /\ pc[t] = "idle"
  /\ issued < MaxRecords
  /\ \E ddl \in DdlTexts, e \in Embeddings :
       frame' = [frame EXCEPT ![t] = [NoFrame EXCEPT !.e = e,
                                                      !.md = DdlRecord(uuid4, ddl, e)]]
  /\ issued' = issued + 1
  /\ pc' = [pc EXCEPT ![t] = "check_none"]
  /\ UNCHANGED <<proc, store_vars, file_vars, ret, hist_vars, added, global_vars>>

\* line 84: if self.index is None
CheckNone(t) ==
  /\ pc[t] = "check_none"
  /\ Goto(t, IF index.none THEN "init_index" ELSE "check_dim")
  /\ UNCHANGED <<proc, store_vars, file_vars, hist_vars>>

\* line 85: self._init_index(len(embeddings))
InitIndex(t) ==
  /\ pc[t] = "init_index"
  /\ LET s == _init_index(Store, Len(frame[t].e), "ok")
     IN /\ index' = s.index
        /\ dimension' = s.dimension
        /\ dimension_file' = s.dimension_file
  /\ Goto(t, "check_dim")
  /\ UNCHANGED <<proc, metadata, index_file, metadata_file, hist_vars>>

\* lines 88-89: the dimension test
CheckDim(t) ==
  /\ pc[t] = "check_dim"
  /\ IF DimensionMismatch(frame[t].e, dimension)
       THEN Return(t, "ValueError")
       ELSE Goto(t, "index_add")
  /\ UNCHANGED <<proc, store_vars, file_vars, hist_vars>>

\* lines 92-93: self.index.add(embedding_array); faiss refuses a row of
\* another width than the index.
IndexAddStep(t) ==
  /\ pc[t] = "index_add"
  /\ IF Len(frame[t].e) # index.d
       THEN Return(t, "AssertionError") /\ index' = index
       ELSE Goto(t, "metadata_append") /\ index' = IndexAdd(index, float32(frame[t].e))
  /\ UNCHANGED <<proc, metadata, dimension, file_vars, hist_vars>>

\* line 94: self.metadata.append(metadata)
MetadataAppendStep(t) ==
  /\ pc[t] = "metadata_append"
  /\ metadata' = MetadataAppend(metadata, frame[t].md)
  /\ Goto(t, "write_index")
  /\ UNCHANGED <<proc, index, dimension, file_vars, hist_vars>>

\* line 119: faiss.write_index(self.index, self.index_path)
WriteIndexStep(t) ==
  /\ pc[t] = "write_index"
  /\ index_file' = WriteFile(index_file, IndexImage(index), "ok")
  /\ Goto(t, "write_metadata")
  /\ UNCHANGED <<proc, store_vars, metadata_file, dimension_file, hist_vars>>

\* lines 120-121: pickle.dump(self.metadata, f), and the return to add_ddl
WriteMetadataStep(t) ==
  /\ pc[t] = "write_metadata"
  /\ metadata_file' = WriteFile(metadata_file, MetadataImage(metadata), "ok")
  /\ Return(t, "ok")
  /\ UNCHANGED <<proc, store_vars, index_file, dimension_file, hist_vars>>

\* A request thread runs get_related_ddl (reached from the ask route of
\* app.py) while others add: its embedding call has returned e.
ReadReturn(t, status, out) ==
  /\ pc' = [pc EXCEPT ![t] = "idle"]
  /\ frame' = [frame EXCEPT ![t] = NoFrame]
  /\ ret' = [NoRet EXCEPT !.op = "get_related_ddl", !.status = status, !.out = out]
  /\ UNCHANGED <<issued, added, global_vars>>

\* get_related_ddl lines 166-168: generate_embedding, the call of
\* get_similar_embeddings.
ReadRequest(t) ==
  /\ proc = "up" /\ pc[t] = "idle"
  /\ \E e \in Embeddings : frame' = [frame EXCEPT ![t] = [NoFrame EXCEPT !.e = e]]
  /\ pc' = [pc EXCEPT ![t] = "read_check"]
  /\ UNCHANGED <<proc, store_vars, file_vars, ret, hist_vars, issued, added,
                 global_vars>>

\* lines 100-102: if self.index is None or self.index.ntotal == 0: return []
ReadCheck(t) ==
  /\ pc[t] = "read_check"
  /\ IF index.none \/ Len(index.vecs) = 0
       THEN ReadReturn(t, "ok", <<>>)
       ELSE Goto(t, "read_search")
  /\ UNCHANGED <<proc, store_vars, file_vars, hist_vars>>

\* lines 105-106: self.index.search(embedding_array, min(n, self.index.ntotal)).
\* faiss refuses a query of another width than the index; on an index that
\* another thread has just replaced by an empty one k is 0, which faiss
\* refuses or answers with no position, depending on its version.
ReadSearch(t) ==
  /\ pc[t] = "read_search"
  /\ IF Len(frame[t].e) # index.d
       THEN ReadReturn(t, "AssertionError", <<>>)
       ELSE IF Len(index.vecs) = 0
         THEN ReadReturn(t, "AssertionError", <<>>) \/ Goto(t, "read_lookup")
         ELSE /\ \E rank \in search(index, float32(frame[t].e),
                                     Min(TopN, Len(index.vecs))) :
                   frame' = [frame EXCEPT ![t].rank = rank]
              /\ pc' = [pc EXCEPT ![t] = "read_lookup"]
              /\ UNCHANGED <<ret, issued, added, global_vars>>
  /\ UNCHANGED <<proc, store_vars, file_vars, hist_vars>>

\* lines 108-114 and 169-171: the records at the positions found, those of
\* type ddl, their content.
ReadLookup(t) ==
  /\ pc[t] = "read_lookup"
  /\ LET sel == OfType(lookup(metadata, frame[t].rank), "ddl")
     IN ReadReturn(t, "ok", [i \in 1..Len(sel) |-> sel[i].content])
  /\ UNCHANGED <<proc, store_vars, file_vars, hist_vars>>

NextConc ==
  \E t \in Threads :
    \/ ReadRequest(t)
    \/ ReadCheck(t)
    \/ ReadSearch(t)
    \/ ReadLookup(t)
    \/ Request(t)
    \/ CheckNone(t)
    \/ InitIndex(t)
    \/ CheckDim(t)
    \/ IndexAddStep(t)
    \/ MetadataAppendStep(t)
    \/ WriteIndexStep(t)
    \/ WriteMetadataStep(t)

SpecConc == Init /\ [][NextConc]_vars

\* ------------------------------------------------------------------ properties
AddOps == {"add_ddl", "add_documentation", "add_question_sql"}

Last(seq) == seq[Len(seq)]

\* Vector i of the index is the float32 row of the embedding computed for
\* record i of the ledger, and there are as many vectors as records.
Aligned(vecs, recs) ==
  /\ Len(vecs) = Len(recs)
  /\ \A i \in DOMAIN recs : i \in DOMAIN vecs /\ vecs[i] = float32(recs[i].emb)

\* Some add_* call with these arguments is the step taken.
SomeAddCall(id, eo, f) ==
  \/ \E ddl \in DdlTexts : AddDdlCall(ddl, id, eo, f)
  \/ \E doc \in DocTexts : AddDocumentationCall(doc, id, eo, f)
  \/ \E question \in Questions, sql \in Sqls : AddQuestionSqlCall(question, sql, id, eo, f)

\* C1: while one caller issues public operations to a running store, before
\* and after every operation the index holds as many vectors as the ledger
\* holds records.
C1_LengthInvariant == proc = "up" => Len(index.vecs) = Len(metadata)

C1_Witness ==
  /\ proc = "up" /\ ret.op = "get_training_data"
  /\ Len(metadata) = 2 /\ Len(index.vecs) = 2

\* C2: after any sequence of adds by one caller, the vector at every position
\* of the index is the (float32) embedding computed for the record at that
\* position of the ledger.
C2_PositionalAlignment == proc = "up" => Aligned(index.vecs, metadata)

C2_Witness ==
  /\ proc = "up" /\ ret.op \in AddOps /\ ret.status = "ok"
  /\ Len(metadata) = 2
  /\ metadata[1].type # metadata[2].type
  /\ index.vecs[1] # index.vecs[2]

\* The files hold a complete snapshot: none at all, or an index file and a
\* ledger file written whole that describe the same records.
SnapshotComplete ==
  \/ index_file.st = "absent" /\ metadata_file.st = "absent"
  \/ /\ index_file.st = "ok" /\ metadata_file.st = "ok"
     /\ Aligned(index_file.vecs, metadata_file.recs)

\* C3: a crash at any point of a save leaves a complete snapshot in the files
\* (the previous one or the new one), and the store constructed after it has
\* as many vectors as records.
C3_CrashAtomicSave ==
  /\ ret.status = "crash" => SnapshotComplete
  /\ (proc = "up" /\ ret.op = "construct") => Len(index.vecs) = Len(metadata)

\* C4: when concurrent add_ddl calls have all returned, record i is still
\* described by vector i, and the saved snapshot holds every added record
\* with its vector.
C4_ConcurrentAddsAligned ==
  (\A t \in Threads : pc[t] = "idle") =>
    /\ Aligned(index.vecs, metadata)
    /\ metadata # <<>> =>
         /\ index_file.st = "ok" /\ index_file.vecs = index.vecs
         /\ metadata_file.st = "ok" /\ metadata_file.recs = metadata

\* C5: once an add has succeeded with an embedding of length D, an add whose
\* embedding has another length raises the dimension error and changes
\* neither index, ledger, dimension nor any file.
C5_DimensionLockIn ==
  [][\A eo \in EmbedOutcomes, f \in Faults :
       (lockedD # NoDim /\ eo.ok /\ Len(eo.v) # lockedD /\ SomeAddCall(uuid4, eo, f))
         => (ret'.status = "ValueError" /\ UNCHANGED <<proc, store_vars, file_vars>>)]_vars

\* C6: when the save of an add_* call fails, the vector and the record it
\* appended are taken back, so that memory holds what the files hold.
C6_RollbackOnSaveFailure ==
  (proc = "up" /\ ret.op \in AddOps /\ ret.status = "OSError") =>
    /\ Len(index.vecs) = Len(index_file.vecs)
    /\ metadata = metadata_file.recs

\* C7: when the embedding call of an add_* call fails, the call ends with the
\* provider's error and index, ledger, dimension and files are as before.
C7_EmbeddingFailureNoEffect ==
  [][SomeAddCall(uuid4, ProviderFailure, NoFault)
         => (ret'.status = "ProviderError" /\ UNCHANGED <<proc, store_vars, file_vars>>)]_vars

C7_Witness ==
  /\ ret.op \in AddOps /\ ret.status = "ProviderError"
  /\ Len(metadata) >= 1

\* C8: remove_training_data(id) that returns normally leaves no record with
\* that id in the ledger, and index and ledger of equal length.
C8_RemoveContract ==
  (proc = "up" /\ ret.op = "remove_training_data" /\ ret.status = "ok") =>
    /\ \A i \in DOMAIN metadata : metadata[i].id # ret.id
    /\ Len(index.vecs) = Len(metadata)

\* C9: constructing the store when exactly one of the index file and the
\* ledger file is present fails; it does not start as an empty store.
C9_PartialSnapshotFailsStartup ==
  (ret.op = "construct" /\ (index_file.st = "absent") # (metadata_file.st = "absent"))
    => ret.status = "LoadError"

ReadOps == {"get_related_ddl", "get_related_documentation", "get_similar_question_sql"}

\* C11: when an add_* call has returned successfully and the process then
\* exits, the store constructed from the same path comes up, and its last
\* ledger record and last vector are the ones that call added.
C11_DurableOnReturn ==
  [][(proc = "up" /\ ret.op \in AddOps /\ ret.status = "ok" /\ Construct)
       => /\ proc' = "up"
          /\ metadata' # <<>> /\ Last(metadata') = Last(metadata)
          /\ index'.vecs # <<>> /\ Last(index'.vecs) = Last(index.vecs)]_vars

\* C12: on a store with no records (index None, or an index holding no
\* vector), each of get_related_ddl, get_related_documentation and
\* get_similar_question_sql whose embedding call succeeded returns the empty
\* sequence and raises nothing.
C12_EmptyStoreSearch ==
  (proc = "up" /\ ret.op \in ReadOps /\ ret.status # "ProviderError"
     /\ (index.none \/ index.vecs = <<>>) /\ metadata = <<>>)
    => (ret.status = "ok" /\ ret.out = <<>>)

C12_Witness ==
  /\ proc = "up" /\ ret.op = "get_related_documentation" /\ ret.status = "ok"
  /\ ~index.none /\ index.vecs = <<>> /\ metadata = <<>> /\ ret.out = <<>>

\* Some get_* call with this embedding outcome and this search result is the
\* step taken.
SomeReadCall(eo, rank) ==
  \/ GetRelatedDdlCall(eo, rank)
  \/ GetRelatedDocumentationCall(eo, rank)
  \/ GetSimilarQuestionSqlCall(eo, rank)

\* The first position the search returns holds the query vector, and no
\* earlier position does.
ExactMatchFirst(vecs, q, rank) ==
  (\E p \in DOMAIN vecs : vecs[p] = q) =>
    /\ rank # <<>> /\ vecs[rank[1]] = q
    /\ \A p \in DOMAIN vecs : p < rank[1] => vecs[p] # q

\* Positions at the same distance from the query come in ascending order.
TiesAscending(vecs, q, rank) ==
  \A i, j \in DOMAIN rank :
    (i < j /\ L2(q, vecs[rank[i]]) = L2(q, vecs[rank[j]])) => rank[i] < rank[j]

\* C13: when the query vector equals a stored vector, the search of a get_*
\* call returns that vector's position first, and positions at equal distance
\* from the query are returned in ascending insertion position.
C13_ExactMatchAndTieOrder ==
  [][\A eo \in EmbedOutcomes : \A rank \in Rankings(Store, eo) :
       (eo.ok /\ rank # <<>> /\ SomeReadCall(eo, rank))
         => /\ ExactMatchFirst(index.vecs, float32(eo.v), rank)
            /\ TiesAscending(index.vecs, float32(eo.v), rank)]_vars

\* rank lists the k nearest of the stored vectors, k the lesser of 10 and
\* their number: distinct positions, nearest first, no position left out that
\* is nearer than one listed.
IsNearest(vecs, q, rank) ==
  /\ Len(rank) = Min(TopN, Len(vecs))
  /\ \A i \in DOMAIN rank : rank[i] \in DOMAIN vecs
  /\ Cardinality({rank[i] : i \in DOMAIN rank}) = Len(rank)
  /\ \A i \in DOMAIN rank :
       i < Len(rank) => L2(q, vecs[rank[i]]) <= L2(q, vecs[rank[i + 1]])
  /\ \A x \in DOMAIN vecs \ {rank[i] : i \in DOMAIN rank} :
       L2(q, vecs[Last(rank)]) <= L2(q, vecs[x])

\* The payloads of the records of one kind among those at the positions of
\* rank, in the order of rank.
RECURSIVE KindPayloads(_, _, _)
KindPayloads(recs, rank, kind) ==
  IF rank = <<>> THEN <<>>
  ELSE LET r == recs[Head(rank)]
           payload == IF kind = "question_sql"
                        THEN [question |-> r.question, sql |-> r.sql]
                        ELSE r.content
       IN (IF r.type = kind THEN <<payload>> ELSE <<>>)
            \o KindPayloads(recs, Tail(rank), kind)

\* C14: get_related_ddl, get_related_documentation and
\* get_similar_question_sql return exactly the payloads of the records of
\* their kind among the 10 nearest records of the whole index, in rank order.
C14_KindFilterOfTopN ==
  [][\A eo \in EmbedOutcomes : \A rank \in Rankings(Store, eo) :
       (eo.ok /\ Len(eo.v) = index.d /\ metadata # <<>>)
         => /\ (ret'.op = "get_related_ddl" /\ GetRelatedDdlCall(eo, rank))
                 => (IsNearest(index.vecs, float32(eo.v), rank)
                     /\ ret'.out = KindPayloads(metadata, rank, "ddl"))
            /\ (ret'.op = "get_related_documentation"
                  /\ GetRelatedDocumentationCall(eo, rank))
                 => (IsNearest(index.vecs, float32(eo.v), rank)
                     /\ ret'.out = KindPayloads(metadata, rank, "documentation"))
            /\ (ret'.op = "get_similar_question_sql"
                  /\ GetSimilarQuestionSqlCall(eo, rank))
                 => (IsNearest(index.vecs, float32(eo.v), rank)
                     /\ ret'.out = KindPayloads(metadata, rank, "question_sql"))]_vars

\* A DDL record is stored, ten records are nearer to the question than it,
\* and get_related_ddl returned nothing.
C14_Witness ==
  /\ ret.op = "get_related_ddl" /\ ret.status = "ok" /\ ret.out = <<>>
  /\ Len(metadata) > TopN
  /\ \E i \in DOMAIN metadata : metadata[i].type = "ddl"

\* C15: get_training_data() returns the records that successful add_* calls
\* have added, all of them and no other, in the order they were added.
C15_TrainingDataIsWhatWasAdded ==
  (proc = "up" /\ ret.op = "get_training_data") => ret.out = added

\* C16: the records of the ledger, in memory and in the ledger file, also
\* after restarts, have pairwise distinct ids, each one an id that uuid4 has
\* issued.
C16_UniqueIds ==
  /\ \A i, j \in DOMAIN metadata : i # j => metadata[i].id # metadata[j].id
  /\ \A i, j \in DOMAIN metadata_file.recs :
       i # j => metadata_file.recs[i].id # metadata_file.recs[j].id
  /\ \A i \in DOMAIN metadata, j \in DOMAIN metadata_file.recs :
       metadata[i].id = metadata_file.recs[j].id => metadata[i] = metadata_file.recs[j]
  /\ \A i \in DOMAIN metadata : metadata[i].id \in 1..issued

C16_Witness ==
  /\ proc = "up" /\ ret.op = "construct" /\ ret.status = "loaded"
  /\ Len(metadata) = 2 /\ metadata[1].id # metadata[2].id
  /\ metadata[1].type = "ddl" /\ metadata[2].type = "ddl"
  /\ issued > 2

\* C17: an add_ddl, add_documentation or add_question_sql call whose text
\* (for add_question_sql: the question or the SQL) is empty fails with an
\* input error and changes neither index, ledger, dimension nor any file.
C17_EmptyTextIsInputError ==
  [][\A eo \in EmbedOutcomes :
       (\/ AddDdlCall(EmptyText, uuid4, eo, NoFault)
        \/ AddDocumentationCall(EmptyText, uuid4, eo, NoFault)
        \/ \E question \in Questions \cup {EmptyText}, sql \in Sqls \cup {EmptyText} :
             /\ (question = EmptyText \/ sql = EmptyText)
             /\ AddQuestionSqlCall(question, sql, uuid4, eo, NoFault))
         => (ret'.status = "InputError" /\ UNCHANGED <<proc, store_vars, file_vars>>)]_vars

\* Some thread's get_related_ddl reads the index (its search) or the ledger
\* (its lookup) in this step.
SomeReadStep == \E t \in Threads : ReadSearch(t) \/ ReadLookup(t)

\* C18: a read running beside an add reads the index and the ledger only in
\* states where the two have the same length.
C18_ReadsSeeEqualLengths ==
  [][SomeReadStep => Len(index.vecs) = Len(metadata)]_vars

\* C20: a lookup of a position the ledger does not have fails with a
\* consistency error; it does not return the result without that position.
C20_OutOfRangeLookupFails ==
  [][\A t \in Threads :
       (ReadLookup(t) /\ \E i \in DOMAIN frame[t].rank : frame[t].rank[i] > Len(metadata))
         => ret'.status = "ConsistencyError"]_vars

\* The positions of rank are distinct and come by ascending squared distance
\* of their vectors to q.
DistinctAscending(vecs, q, rank) ==
  /\ \A i \in DOMAIN rank : rank[i] \in DOMAIN vecs
  /\ Cardinality({rank[i] : i \in DOMAIN rank}) = Len(rank)
  /\ \A i \in DOMAIN rank :
       i < Len(rank) => L2(q, vecs[rank[i]]) <= L2(q, vecs[rank[i + 1]])

\* C21: on a store holding m vectors, get_similar_embeddings(e, n) that
\* returns has returned exactly min(n, m) records: the records at min(n, m)
\* distinct positions, in the order of ascending squared Euclidean distance
\* of their vectors to the query vector.
C21_SearchReturnsMinSorted ==
  [][\A e \in Embeddings, n \in NeighbourCounts : \A rank \in Neighbours(Store, e, n) :
       (GetSimilarEmbeddingsCall(e, n, rank) /\ ret'.status = "ok")
         => /\ Len(ret'.out) = Min(n, Len(index.vecs))
            /\ Len(rank) = Len(ret'.out)
            /\ DistinctAscending(index.vecs, float32(e), rank)
            /\ \A i \in DOMAIN rank :
                 rank[i] \in DOMAIN metadata /\ ret'.out[i] = metadata[rank[i]]]_vars

\* Some thread's add_ddl returns its id in this step.
SomeAddReturns == \E t \in Threads : WriteMetadataStep(t)

\* C22: each successful add_* call has appended exactly one vector and one
\* record: when it returns, the id it returns is the id of the record at the
\* last ledger position and of no other record, and once no call is running
\* the index holds one vector and the ledger one record per successful call.
C22_EachAddAppendsOne ==
  [][SomeAddReturns
       => /\ metadata' # <<>> /\ ret'.id = Last(metadata').id
          /\ Cardinality({i \in DOMAIN metadata' : metadata'[i].id = ret'.id}) = 1
          /\ (\A t \in Threads : pc'[t] = "idle")
               => (Len(index'.vecs) = Len(added') /\ Len(metadata') = Len(added'))]_vars

\* Sequence a is the beginning of sequence b.
IsPrefix(a, b) == Len(a) <= Len(b) /\ \A i \in DOMAIN a : b[i] = a[i]

\* Some thread takes a step of get_related_ddl.
SomeReaderStep ==
  \E t \in Threads : ReadRequest(t) \/ ReadCheck(t) \/ ReadSearch(t) \/ ReadLookup(t)

\* C23: a step of a read leaves index, ledger, dimension and the three files
\* as they are, and no step of any operation changes, moves or drops a vector
\* or a record already stored: the index and the ledger only grow at the end.
C23_ReadsFrameAndAppendOnly ==
  [][/\ SomeReaderStep => UNCHANGED <<store_vars, file_vars>>
     /\ IsPrefix(index.vecs, index'.vecs)
     /\ IsPrefix(metadata, metadata')]_vars

\* C24: through adds, failed writes, crashes and restarts, a store that has
\* loaded a snapshot has adopted as its dimension the vector width of the
\* index it loaded, and no add that passed the dimension test is refused by
\* the index.
C24_LoadedDimensionIsIndexWidth ==
  /\ (proc = "up" /\ ret.op = "construct" /\ ret.status = "loaded")
       => dimension = index.d
  /\ ret.op \in AddOps => ret.status # "AssertionError"

GlobalOps == {"init_vanna", "get_vanna"}

\* C25: a process builds at most one instance; every init_vanna or get_vanna
\* call that returns, returns the instance the global refers to, whose
\* connect_to_sqlite has succeeded; after a call that raised, the global
\* refers to no instance.
C25_OneConnectedInstance ==
  /\ instances <= 1
  /\ (ret.op \in GlobalOps /\ ret.status = "ok")
       => (ret.out = <<_vanna_instance>> /\ _vanna_instance \in connected)
  /\ (ret.op \in GlobalOps /\ ret.status # "ok") => _vanna_instance = NoInstance

\* C19: as long as no add_* call has succeeded the store is uninitialised:
\* no index and no dimension in memory, and no dimension file.
C19_UninitialisedUntilAddSucceeds ==
  (proc = "up" /\ lockedD = NoDim) =>
    (index.none /\ dimension = NoDim /\ dimension_file.st = "absent")

====
